---- MODULE Spec2Model ----
(***************************************************************************)
(* Model of the RFID card programs of this repository:                     *)
(*   - src/src/card_operations.rs : CardManager (keyload, auth, read,      *)
(*     write, read_sector, write_sector) over a PC/SC card;                *)
(*   - src/src/main.rs            : the balance program (read block 4,     *)
(*     then a depot / retrait command loop);                               *)
(*   - src/src/utils.rs           : hexa_to_tableau / hexa_to_decimal.     *)
(*   - the poll/command coordinator of sections 4.5 and 5 of the           *)
(*     specification, which has no source file: SpecCoord.                 *)
(*                                                                         *)
(* Integers wider than TLC's are kept as big-endian sequences of bytes     *)
(* (limbs): an i128 is 16 limbs in two's complement, exactly its bits.     *)
(* "Exact" (mathematical) results are computed on 17 limbs, where the      *)
(* sum, difference or tenfold of two i128 values cannot overflow.          *)
(***************************************************************************)
EXTENDS Integers, Sequences, FiniteSets, TLC

VARIABLES
    prog,            \* "main": the balance program; "lib": a client of CardManager
    pc,              \* where the program is
    overflowChecks,  \* the build: TRUE panics on integer overflow, FALSE wraps
    cardKey,         \* key A of the card's sectors
    mem,             \* the card's blocks that differ from the all-zero block
    key,             \* the key in the reader's slot 0 (<<>>: none)
    authSector,      \* the sector the card is authenticated for (-1: none)
    wire,            \* the frames the last operation handed to transmit, in order
    resps,           \* what each of these transmits put in rapdu (<<>>: Err)
    out,             \* the messages the last operation printed, in order
    fault,           \* the last operation's first failing transmit (0: none)
    op,              \* the last operation and its arguments
    retFlag,         \* the u8 the last keyload / auth returned (-1: none)
    retBlocks,       \* the blocks the last read / read_sector returned
    balance,         \* main: the i128 balance
    prevBalance,     \* main: the balance before the last command
    nOps,            \* commands read by main / calls made by the client so far
    session,         \* main: the frames transmitted since the card was connected
    cv,              \* codec: the 128-bit input
    chexa,           \* codec: the formatted string
    ctab,            \* codec: the packed bytes
    cres,            \* codec: the decoded i128
    cpc,             \* codec: the stage
    chan,            \* coordinator: the single-slot channel, <<>> or <<result>>
    pollPc,          \* coordinator: the poller waits for the "timer" or is "sending"
    pollRes,         \* coordinator: the result the poller is sending
    fgPc,            \* coordinator: the foreground is at "select", waits for the
                     \* delivery of an "add" / "reset", or has "stopped"
    fgName,          \* coordinator: the name of the pending add
    lastShown,       \* coordinator: the last displayed message (<<>>: none)
    shown,           \* coordinator: the display events, in order
    taken,           \* coordinator: who consumed which result, in order
    registry,        \* coordinator: the identity registry, pairs <<identifier, name>>
    sends,           \* coordinator: the results put in the channel, by number
    nPolls,          \* coordinator: ticks of the poller's timer so far
    nLines           \* coordinator: lines the foreground has read

cardVars == <<cardKey, mem, key, authSector>>
opVars == <<wire, resps, out, fault, op, retFlag, retBlocks>>
mainVars == <<balance, prevBalance>>
codecVars == <<cv, chexa, ctab, cres, cpc>>
coordVars == <<chan, pollPc, pollRes, fgPc, fgName, lastShown, shown, taken,
               registry, sends, nPolls, nLines>>
vars == <<prog, pc, overflowChecks, cardKey, mem, key, authSector,
          wire, resps, out, fault, op, retFlag, retBlocks,
          balance, prevBalance, nOps, session, cv, chexa, ctab, cres, cpc,
          chan, pollPc, pollRes, fgPc, fgName, lastShown, shown, taken,
          registry, sends, nPolls, nLines>>

(***************************************************************************)
(* Program constants.                                                      *)
(***************************************************************************)
\* A block is 16 bytes ([u8; 16]); an i128 has as many bytes.
BlockLen == 16
\* Width of the formatted balance, "{:0>32X}".
HexWidth == 32
\* The block the balance program keeps the balance in.
BalanceBlock == 4
\* Blocks below this one are refused by write (sector 0).
FirstWritable == 4
\* u8 arithmetic is modulo 256.
U8Mod == 256

(***************************************************************************)
(* Bounds of the model.                                                    *)
(***************************************************************************)
\* Commands the balance loop reads before the model stops it.
MaxCmds == 2
\* Calls the client of CardManager makes before the model stops it.
MaxOps == 2
\* Longest data vector handed to write_sector.
MaxData == 5
\* Ticks of the poller's timer before the model stops it.
MaxPolls == 3
\* Lines the foreground of the coordinator reads before the model stops it.
MaxLines == 2

(***************************************************************************)
(* Limb arithmetic (two's complement, big-endian, fixed length).           *)
(***************************************************************************)
Zeros(n) == [i \in 1..n |-> 0]

RECURSIVE AddLimbs(_, _, _)
\* x + y + c modulo 256^Len(x); x and y have the same length.
AddLimbs(x, y, c) ==
    IF x = <<>> THEN <<>>
    ELSE LET n == Len(x)
             s == x[n] + y[n] + c
         IN  AddLimbs(SubSeq(x, 1, n - 1), SubSeq(y, 1, n - 1), s \div 256)
                 \o <<s % 256>>

NotLimbs(x) == [i \in 1..Len(x) |-> 255 - x[i]]

\* x - y modulo 256^Len(x).
SubLimbs(x, y) == AddLimbs(x, NotLimbs(y), 1)

RECURSIVE MulSmall(_, _, _)
\* x * k + c modulo 256^Len(x), for a small k.
MulSmall(x, k, c) ==
    IF x = <<>> THEN <<>>
    ELSE LET n == Len(x)
             s == x[n] * k + c
         IN  MulSmall(SubSeq(x, 1, n - 1), k, s \div 256) \o <<s % 256>>

\* The sign of a two's complement value is the top bit of its first limb.
IsNeg(x) == x[1] >= 128

\* The same integer on one more limb.
SignExtend(x) == <<IF IsNeg(x) THEN 255 ELSE 0>> \o x

\* The unsigned integer the bytes spell (byte 1 most significant), as a
\* non-negative two's complement value on one more limb.
ZeroExtend(x) == <<0>> \o x

\* A 17-limb value is in the range of i128 iff sign-extending its low 16
\* limbs gives it back.
FitsI128(w) == SignExtend(Tail(w)) = w

ZeroI128 == Zeros(BlockLen)

\* `hex as i128` for a u8.
U8AsI128(b) == Zeros(BlockLen - 1) \o <<b>>

RECURSIVE BitOr(_, _)
BitOr(a, b) ==
    IF a = 0 THEN b
    ELSE IF b = 0 THEN a
    ELSE 2 * BitOr(a \div 2, b \div 2)
           + (IF a % 2 = 1 \/ b % 2 = 1 THEN 1 ELSE 0)

\* resultat << 8 on an i128: the top byte is shifted out, no overflow check.
Shl8(x) == Tail(x) \o <<0>>

OrI128(x, y) == [i \in 1..BlockLen |-> BitOr(x[i], y[i])]

(***************************************************************************)
(* utils.rs / main.rs : hexa_to_decimal.                                   *)
(***************************************************************************)
RECURSIVE HexaToDecimalFrom(_, _)
HexaToDecimalFrom(resultat, tableau) ==
    IF tableau = <<>> THEN resultat
    ELSE HexaToDecimalFrom(OrI128(Shl8(resultat), U8AsI128(Head(tableau))),
                           Tail(tableau))

hexa_to_decimal(tableau) == HexaToDecimalFrom(ZeroI128, tableau)

(***************************************************************************)
(* format!("{:0>32X}", balance).                                           *)
(***************************************************************************)
HexChars == <<"0", "1", "2", "3", "4", "5", "6", "7",
              "8", "9", "A", "B", "C", "D", "E", "F">>
LowerHexChars == <<"0", "1", "2", "3", "4", "5", "6", "7",
                   "8", "9", "a", "b", "c", "d", "e", "f">>

\* The two hex digits of every byte, most significant first.
Nibbles(x) ==
    [i \in 1..(2 * Len(x)) |->
        IF i % 2 = 1 THEN x[(i + 1) \div 2] \div 16 ELSE x[i \div 2] % 16]

RECURSIVE StripZeros(_)
StripZeros(d) ==
    IF Len(d) > 1 /\ Head(d) = 0 THEN StripZeros(Tail(d)) ELSE d

\* {:X} of an i128: the hex digits of its 128 bits read as unsigned, without
\* leading zeros (a negative value prints its two's complement).
UpperHex(x) == LET d == StripZeros(Nibbles(x))
               IN  [i \in 1..Len(d) |-> HexChars[d[i] + 1]]

\* {:0>w}: right-aligned, filled with '0' up to the width w; never cut.
PadLeft(s, w) ==
    IF Len(s) >= w THEN s ELSE [i \in 1..(w - Len(s)) |-> "0"] \o s

FormatBalance(x) == PadLeft(UpperHex(x), HexWidth)

(***************************************************************************)
(* utils.rs / main.rs : hexa_to_tableau.                                   *)
(***************************************************************************)
\* The value of a hex digit (either case), or -1.
HexVal(c) ==
    IF \E i \in 1..16 : HexChars[i] = c
    THEN (CHOOSE i \in 1..16 : HexChars[i] = c) - 1
    ELSE IF \E i \in 1..16 : LowerHexChars[i] = c
    THEN (CHOOSE i \in 1..16 : LowerHexChars[i] = c) - 1
    ELSE -1

\* u8::from_str_radix(chunk, 16) on a chunk of two characters: -1 for Err.
\* A leading '+' is accepted by from_str_radix.
FromStrRadix16(chunk) ==
    IF chunk[1] = "+"
    THEN HexVal(chunk[2])
    ELSE IF HexVal(chunk[1]) < 0 \/ HexVal(chunk[2]) < 0 THEN -1
    ELSE 16 * HexVal(chunk[1]) + HexVal(chunk[2])

\* chunks_exact(2): Len \div 2 chunks, a trailing odd character is left out.
Chunks(hexa) ==
    [k \in 1..(Len(hexa) \div 2) |-> <<hexa[2 * k - 1], hexa[2 * k]>>]

\* [ok, tableau]: ok is FALSE when an unwrap or the index panics.
hexa_to_tableau(hexa) ==
    LET ch == Chunks(hexa)
    IN  IF Len(ch) > BlockLen \/ \E k \in 1..Len(ch) : FromStrRadix16(ch[k]) < 0
        THEN [ok |-> FALSE, tableau |-> Zeros(BlockLen)]
        ELSE [ok |-> TRUE,
              tableau |-> [i \in 1..BlockLen |->
                             IF i <= Len(ch) THEN FromStrRadix16(ch[i]) ELSE 0]]

(***************************************************************************)
(* The reader transport and the card (external): Card::transmit.           *)
(*                                                                         *)
(* An execution record x carries the card and reader state through one     *)
(* operation, with what the operation has transmitted and printed so far:  *)
(*   mem, key, auth : the card's blocks, the reader's key, the sector      *)
(*                    authenticated;                                       *)
(*   wire, resps    : frames handed to transmit, what each put in rapdu;   *)
(*   out            : messages printed;                                    *)
(*   panicked       : an expect / unwrap / overflow check has panicked;    *)
(*   failSet        : the transmits of the operation (1st, 2nd, ...) on    *)
(*                    which the transport fails;                           *)
(*   klOk           : the reader accepts the keys it is given.             *)
(***************************************************************************)
DefaultKey == <<255, 255, 255, 255, 255, 255>>
OtherKey == <<15, 255, 239, 239, 175, 255>>

SwOk == <<144, 0>>
SwFail == <<99, 0>>

ZeroBlock == Zeros(BlockLen)

MemAt(m, b) == IF b \in DOMAIN m THEN m[b] ELSE ZeroBlock

MemPut(m, b, d) == [c \in (DOMAIN m) \cup {b} |-> IF c = b THEN d ELSE m[c]]

SectorOf(block) == block \div 4

\* The card's answer to a frame that reached it: [rapdu, x].
CardRespond(x, apdu) ==
    LET ins == apdu[2]
    IN  IF ins = 130 THEN
            IF x.klOk
            THEN [rapdu |-> SwOk, x |-> [x EXCEPT !.key = SubSeq(apdu, 6, 11)]]
            ELSE [rapdu |-> SwFail, x |-> x]
        ELSE IF ins = 134 THEN
            IF x.key = cardKey
            THEN [rapdu |-> SwOk, x |-> [x EXCEPT !.auth = SectorOf(apdu[8])]]
            ELSE [rapdu |-> SwFail, x |-> [x EXCEPT !.auth = -1]]
        ELSE IF ins = 176 THEN
            IF x.auth = SectorOf(apdu[4])
            THEN [rapdu |-> MemAt(x.mem, apdu[4]) \o SwOk, x |-> x]
            ELSE [rapdu |-> SwFail, x |-> x]
        ELSE
            IF x.auth = SectorOf(apdu[4])
            THEN [rapdu |-> SwOk,
                  x |-> [x EXCEPT !.mem = MemPut(@, apdu[4], SubSeq(apdu, 6, 21))]]
            ELSE [rapdu |-> SwFail, x |-> x]

\* The one element of a set of one element: The({e(v) : v \in {d}}) is e
\* with v bound to the value of d, computed once.
The(S) == CHOOSE e \in S : TRUE

\* card.transmit(&apdu, &mut rapdu): [ok, rapdu, x]. On Err the buffer is
\* left as it was filled, with zeros.
Transmit(x, apdu) ==
    LET n == Len(x.wire) + 1
        sent == [x EXCEPT !.wire = Append(@, apdu)]
    IN  IF n \in x.failSet
        THEN [ok |-> FALSE, rapdu |-> <<>>,
              x |-> [sent EXCEPT !.resps = Append(@, <<>>)]]
        ELSE The({[ok |-> TRUE, rapdu |-> r.rapdu,
                   x |-> [r.x EXCEPT !.resps = Append(@, r.rapdu)]] :
                  r \in {CardRespond(sent, apdu)}})

\* rapdu[i] of the zero-filled response buffer (i from 0).
RapduAt(rapdu, i) == IF i < Len(rapdu) THEN rapdu[i + 1] ELSE 0

\* &rapdu[..n]
RapduPrefix(rapdu, n) == [i \in 1..n |-> RapduAt(rapdu, i - 1)]

Say(x, msg) == [x EXCEPT !.out = Append(@, msg)]

Panic(x) == [x EXCEPT !.panicked = TRUE]

(***************************************************************************)
(* The command frames.                                                     *)
(***************************************************************************)
LoadKeyApdu(k) == <<255, 130, 0, 0, 6>> \o k

AuthApdu(block) == <<255, 134, 0, 0, 5, 1, 0, block, 96, 0>>

ReadApdu(block) == <<255, 176, 0, block, 16>>

WriteApdu(block, data) == <<255, 214, 0, block, 16>> \o data

(***************************************************************************)
(* card_operations.rs : CardManager.                                       *)
(***************************************************************************)
\* [x, ret]
CardManager_keyload(x, k) ==
    The({IF t.ok
         THEN [x |-> t.x, ret |-> 1]
         ELSE IF RapduPrefix(t.rapdu, 2) # SwOk
         THEN [x |-> Say(Say(t.x, "Erreur lors de la transmission"),
                         "Chargement des cles echouees"),
               ret |-> 0]
         ELSE [x |-> Say(t.x, "Erreur lors de la transmission"), ret |-> 1] :
         t \in {Transmit(x, LoadKeyApdu(k))}})

\* [x, ret]
CardManager_auth(x, block) ==
    The({IF ~t.ok
         THEN [x |-> Panic(t.x), ret |-> -1]
         ELSE IF RapduAt(t.rapdu, 0) # 144
         THEN [x |-> Say(t.x, "Authentification echouee"), ret |-> 0]
         ELSE [x |-> t.x, ret |-> 1] :
         t \in {Transmit(x, AuthApdu(block))}})

\* The read frame of read and what read returns: [x, ret], ret the Vec<u8>
\* returned (<<>> when the call panicked).
ReadBinary(x, block) ==
    The({IF ~t.ok
         THEN [x |-> Panic(t.x), ret |-> <<>>]
         ELSE IF RapduAt(t.rapdu, 16) # 144
         THEN [x |-> t.x, ret |-> RapduPrefix(t.rapdu, 16)]
         ELSE [x |-> t.x, ret |-> RapduPrefix(t.rapdu, 16)] :
         t \in {Transmit(x, ReadApdu(block))}})

\* A variant that gives up when the authentication is refused.
CardManager_readGuarded(x, block) ==
    The({The({IF a.x.panicked \/ a.ret = 0
              THEN [x |-> a.x, ret |-> <<>>]
              ELSE ReadBinary(a.x, block) :
              a \in {CardManager_auth(k.x, block)}}) :
         k \in {CardManager_keyload(x, DefaultKey)}})

\* [x, ret]: ret is the Vec<u8> returned (<<>> when the call panicked).
CardManager_read(x, block) ==
    The({The({IF a.x.panicked
              THEN [x |-> a.x, ret |-> <<>>]
              ELSE ReadBinary(a.x, block) :
              a \in {CardManager_auth(k.x, block)}}) :
         k \in {CardManager_keyload(x, DefaultKey)}})

\* The write frame of write and the message on its response: x after it.
WriteBinary(x, block, data) ==
    The({IF ~t.ok
         THEN Panic(t.x)
         ELSE IF RapduAt(t.rapdu, 16) # 144
         THEN Say(t.x, "Success")
         ELSE Say(t.x, "Failed") :
         t \in {Transmit(x, WriteApdu(block, data))}})

\* A variant without the check of the block number.
CardManager_writeUnguarded(x, block, data) == WriteBinary(x, block, data)

\* x after the call
CardManager_write(x, block, data) ==
    IF block < FirstWritable
    THEN Say(x, "Le secteur 0 ne peut pas etre modifie")
    ELSE WriteBinary(x, block, data)

\* u8 arithmetic: [ok, val]; an overflow panics in a build with overflow
\* checks and wraps in one without.
U8Mul(a, b) ==
    IF a * b >= U8Mod
    THEN [ok |-> ~overflowChecks, val |-> (a * b) % U8Mod]
    ELSE [ok |-> TRUE, val |-> a * b]

U8Add(a, b) ==
    IF a + b >= U8Mod
    THEN [ok |-> ~overflowChecks, val |-> (a + b) % U8Mod]
    ELSE [ok |-> TRUE, val |-> a + b]

RECURSIVE ReadSectorLoop(_, _, _, _, _)
\* for block_offset in from..to-1: [x, ret], ret the blocks pushed so far.
ReadSectorLoop(x, start_block, from, to, blocks) ==
    IF from >= to THEN [x |-> x, ret |-> blocks]
    ELSE LET block == U8Add(start_block, from)
         IN  IF ~block.ok THEN [x |-> Panic(x), ret |-> blocks]
             ELSE The({IF r.x.panicked THEN [x |-> r.x, ret |-> blocks]
                       ELSE ReadSectorLoop(r.x, start_block, from + 1, to,
                                           Append(blocks, r.ret)) :
                       r \in {CardManager_read(x, block.val)}})

\* [x, ret]
CardManager_read_sector(x, sector) ==
    LET start_block == U8Mul(sector, 4)
    IN  IF ~start_block.ok THEN [x |-> Panic(x), ret |-> <<>>]
        ELSE ReadSectorLoop(x, start_block.val, 0, 3, <<>>)

RECURSIVE WriteSectorLoop(_, _, _, _)
\* for (block_offset, block_data) in data.iter().enumerate(), from i on.
WriteSectorLoop(x, start_block, i, data) ==
    IF i >= Len(data) THEN x
    ELSE LET block == U8Add(start_block, i % U8Mod)
         IN  IF ~block.ok THEN Panic(x)
             ELSE The({IF x1.panicked THEN x1
                       ELSE WriteSectorLoop(x1, start_block, i + 1, data) :
                       x1 \in {CardManager_write(x, block.val, data[i + 1])}})

\* x after the call
CardManager_write_sector(x, sector, data) ==
    LET start_block == U8Mul(sector, 4)
    IN  IF ~start_block.ok THEN Panic(x)
        ELSE WriteSectorLoop(x, start_block.val, 0, data)

(***************************************************************************)
(* main.rs : keyload, auth, read, write.                                   *)
(***************************************************************************)
\* x after the call
keyload(x, k) ==
    The({IF ~t.ok
         THEN Panic(t.x)
         ELSE IF RapduPrefix(t.rapdu, 2) # SwOk
         THEN Say(t.x, "Load key failed with status")
         ELSE t.x :
         t \in {Transmit(x, LoadKeyApdu(k))}})

\* x after the call
auth(x, block) ==
    The({IF ~t.ok
         THEN Panic(t.x)
         ELSE IF RapduAt(t.rapdu, 0) # 144
         THEN Say(t.x, "Auth failed")
         ELSE t.x :
         t \in {Transmit(x, AuthApdu(block))}})

\* A variant that goes from the key load straight to the read frame.
readWithoutAuth(x, block) ==
    The({IF x1.panicked THEN [x |-> x1, ret |-> <<>>]
         ELSE ReadBinary(Say(x1, "Load key successful"), block) :
         x1 \in {keyload(x, DefaultKey)}})

\* [x, ret]
read(x, block) ==
    The({IF x1.panicked THEN [x |-> x1, ret |-> <<>>]
         ELSE The({IF x2.panicked THEN [x |-> x2, ret |-> <<>>]
                   ELSE ReadBinary(x2, block) :
                   x2 \in {auth(Say(x1, "Load key successful"), block)}}) :
         x1 \in {keyload(x, DefaultKey)}})

\* x after the call
write(x, block, data) ==
    IF block < FirstWritable
    THEN Say(x, "Le secteur 0 ne peut pas etre modifie")
    ELSE WriteBinary(x, block, data)

(***************************************************************************)
(* main.rs : i128 arithmetic and parsing of the command loop.              *)
(***************************************************************************)
\* The decimal value of a character, or -1.
DecVal(c) == IF HexVal(c) \in 0..9 THEN HexVal(c) ELSE -1

RECURSIVE ParseDigits(_, _, _)
\* The digit loop of i128::from_str: checked_mul(10), then checked_add of the
\* digit (checked_sub for a negative number). [ok, val]
ParseDigits(acc, ds, neg) ==
    IF ds = <<>> THEN [ok |-> TRUE, val |-> acc]
    ELSE LET d == DecVal(Head(ds))
             w10 == MulSmall(SignExtend(acc), 10, 0)
             dw == Zeros(BlockLen) \o <<IF d < 0 THEN 0 ELSE d>>
             w == IF neg THEN SubLimbs(w10, dw) ELSE AddLimbs(w10, dw, 0)
         IN  IF d < 0 \/ ~FitsI128(w10) \/ ~FitsI128(w)
             THEN [ok |-> FALSE, val |-> ZeroI128]
             ELSE ParseDigits(Tail(w), Tail(ds), neg)

\* parts[1].parse::<i128>(): [ok, val]
ParseI128(tok) ==
    IF tok = <<>> \/ tok = <<"+">> \/ tok = <<"-">>
    THEN [ok |-> FALSE, val |-> ZeroI128]
    ELSE IF Head(tok) = "+" THEN ParseDigits(ZeroI128, Tail(tok), FALSE)
    ELSE IF Head(tok) = "-" THEN ParseDigits(ZeroI128, Tail(tok), TRUE)
    ELSE ParseDigits(ZeroI128, tok, FALSE)

\* a <= b on i128: the exact difference b - a is not negative.
LeI128(a, b) == ~IsNeg(SubLimbs(SignExtend(b), SignExtend(a)))

\* The exact sum and difference of two i128 values, on 17 limbs.
ExactAdd(a, b) == AddLimbs(SignExtend(a), SignExtend(b), 0)
ExactSub(a, b) == SubLimbs(SignExtend(a), SignExtend(b))

\* balance += amount / balance -= amount: [ok, val]; an overflow panics in a
\* build with overflow checks and wraps in one without.
I128Add(a, b) ==
    LET w == ExactAdd(a, b)
    IN  [ok |-> FitsI128(w) \/ ~overflowChecks, val |-> Tail(w)]

I128Sub(a, b) ==
    LET w == ExactSub(a, b)
    IN  [ok |-> FitsI128(w) \/ ~overflowChecks, val |-> Tail(w)]

(***************************************************************************)
(* Inputs of the model.                                                    *)
(***************************************************************************)
Depot == <<"d", "e", "p", "o", "t">>
Retrait == <<"r", "e", "t", "r", "a", "i", "t">>

\* A block with the given first, fifteenth and last byte.
Blk(hi, mid, lo) == <<hi>> \o Zeros(BlockLen - 3) \o <<mid, lo>>

\* i128::MAX and i128::MAX + 1 in decimal.
TokMax == <<"1","7","0","1","4","1","1","8","3","4","6","0","4","6","9","2","3",
            "1","7","3","1","6","8","7","3","0","3","7","1","5","8","8","4","1",
            "0","5","7","2","7">>
TokTooBig == <<"1","7","0","1","4","1","1","8","3","4","6","0","4","6","9","2","3",
               "1","7","3","1","6","8","7","3","0","3","7","1","5","8","8","4","1",
               "0","5","7","2","8">>

AmountToks == {<<"5">>, <<"1", "0", "0">>, <<"-", "1", "0", "0">>, TokMax,
               TokTooBig, <<"a", "b", "c">>}
\* parts[1].parse::<i128>() of every amount of the model, computed once.
ParsedAmounts == [tok \in AmountToks |-> ParseI128(tok)]

Exit == <<"e", "x", "i", "t">>
Quit == <<"q", "u", "i", "t">>

CommandToks == {Depot, Retrait, Exit}

Lines == {<<>>, <<Depot>>, <<Exit>>, <<Quit>>, <<Depot, <<"5">>, <<"5">>>>}
           \cup {<<c, a>> : c \in CommandToks, a \in AmountToks}

\* Content of block 4 when the balance program starts.
InitBlocks == {Blk(0, 0, 16), Blk(0, 0, 21), Blk(127, 255, 255), Blk(128, 0, 0)}

Keys == {DefaultKey, OtherKey}

\* The transmits on which the transport may fail in an operation of at most
\* n transmits: none, one of them, or all from one of them on.
FaultSets(n) == {{}} \cup {{k} : k \in 1..n} \cup {k..n : k \in 1..n}

NoOp == [name |-> "none", block |-> -1, sector |-> -1, key |-> <<>>, data |-> <<>>,
         outcome |-> "none"]

\* The execution record an operation starts from.
Exec(failSet, klOk) ==
    [mem |-> mem, key |-> key, auth |-> authSector, wire |-> <<>>,
     resps |-> <<>>, out |-> <<>>,
     panicked |-> FALSE, failSet |-> failSet, klOk |-> klOk]

\* The card, the reader and the records of the operation after it ran to x.
Finish(x, o, rf, rb) ==
    /\ mem' = x.mem
    /\ key' = x.key
    /\ authSector' = x.auth
    /\ wire' = x.wire
    /\ resps' = x.resps
    /\ out' = x.out
    /\ fault' = x.failSet \cap (1..Len(x.wire))
    /\ op' = o
    /\ retFlag' = rf
    /\ retBlocks' = rb
    /\ session' = IF prog = "main" THEN session \o x.wire ELSE session
    /\ UNCHANGED <<prog, overflowChecks, cardKey>>
    /\ UNCHANGED <<codecVars, coordVars>>

(***************************************************************************)
(* main.rs : one turn of the command loop, from read_line to the next      *)
(* prompt. parts is the line split at white space. [x, balance]            *)
(***************************************************************************)
\* format!, hexa_to_tableau and write of a new balance.
StoreBalance(x, bal, done) ==
    The({IF ~tab.ok THEN Panic(x)
         ELSE The({IF x1.panicked THEN x1 ELSE Say(x1, done) :
                   x1 \in {write(x, BalanceBlock, tab.tableau)}}) :
         tab \in {hexa_to_tableau(FormatBalance(bal))}})

\* A variant that only asks for enough parts.
TwoPartsAtLeast(parts) == Len(parts) >= 2

\* Line 508: the line has the shape "command amount".
TwoParts(parts) == Len(parts) = 2

\* A variant with the operands exchanged.
CoveredReversed(amount, bal) == LeI128(bal, amount)

\* Line 528: the balance covers the amount.
Covered(amount, bal) == LeI128(amount, bal)

LoopBody(x, bal, parts) ==
    IF ~TwoParts(parts)
    THEN [x |-> Say(x, "Commande invalide"), balance |-> bal]
    ELSE LET command == parts[1]
             amount == ParsedAmounts[parts[2]]
         IN  IF ~amount.ok
             THEN [x |-> Say(x, "Montant invalide"), balance |-> bal]
             ELSE IF command = Depot
             THEN The({IF ~b.ok THEN [x |-> Panic(x), balance |-> bal]
                       ELSE [x |-> StoreBalance(x, b.val, "Depot effectue"),
                             balance |-> b.val] :
                       b \in {I128Add(bal, amount.val)}})
             ELSE IF command = Retrait
             THEN IF Covered(amount.val, bal)
                  THEN The({IF ~b.ok THEN [x |-> Panic(x), balance |-> bal]
                            ELSE [x |-> StoreBalance(x, b.val, "Retrait effectue"),
                                  balance |-> b.val] :
                            b \in {I128Sub(bal, amount.val)}})
                  ELSE [x |-> Say(x, "Solde insuffisant"), balance |-> bal]
             ELSE [x |-> Say(x, "Commande invalide"), balance |-> bal]

(***************************************************************************)
(* main.rs : main.                                                         *)
(***************************************************************************)
\* Lines 461-493: the PC/SC context, the reader, the card, the first read.
Startup ==
    /\ prog = "main"
    /\ pc = "start"
    /\ \E outcome \in {"no_context", "no_list", "no_reader", "no_card", "connected"},
          failSet \in FaultSets(3), klOk \in BOOLEAN :
         IF outcome # "connected"
         THEN /\ failSet = {}
              /\ klOk
              /\ pc' = IF outcome \in {"no_context", "no_card"}
                       THEN "panicked" ELSE "exited"
              /\ Finish(Say(Exec({}, TRUE), outcome),
                        [NoOp EXCEPT !.name = "startup", !.outcome = outcome],
                        -1, <<>>)
              /\ UNCHANGED <<mainVars, nOps>>
         ELSE \E r \in {read(Say(Exec(failSet, klOk), "Connected to the card"),
                              BalanceBlock)} :
                  /\ pc' = IF r.x.panicked THEN "panicked" ELSE "loop"
                  /\ balance' = IF r.x.panicked THEN balance
                                ELSE hexa_to_decimal(r.ret)
                  /\ prevBalance' = balance'
                  /\ Finish(r.x, [NoOp EXCEPT !.name = "read", !.block = BalanceBlock],
                            -1, IF r.x.panicked THEN <<>> ELSE <<r.ret>>)
                  /\ UNCHANGED nOps

\* Lines 496-544: one turn of the loop on the line read.
Command ==
    /\ prog = "main"
    /\ pc = "loop"
    /\ nOps < MaxCmds
    /\ \E parts \in Lines, failSet \in FaultSets(1) :
         \E r \in {LoopBody(Exec(failSet, TRUE), balance, parts)} :
             /\ pc' = IF r.x.panicked THEN "panicked" ELSE "loop"
             /\ balance' = r.balance
             /\ prevBalance' = balance
             /\ nOps' = nOps + 1
             /\ Finish(r.x, [NoOp EXCEPT !.name = "command", !.data = parts],
                       -1, <<>>)

(***************************************************************************)
(* A client of CardManager: any call, in any order, on a connected card.   *)
(***************************************************************************)
LibBlocks == {3, 4, 255}
LibSectors == {0, 1, 63, 64}

DataBlk(t) == Blk(0, 0, t)

\* n different blocks of data.
DataVec(n) == [i \in 1..n |-> DataBlk(16 + i)]

\* Failing transmits tried on a sector operation of at most n transmits.
SectorFaults(n) == {{}} \cup {f \in {{1}, {4}, 2..n, 5..n} : f # {} /\ f \subseteq 1..n}

\* CardManager::loadreader, lines 25-46: the context, the list of readers,
\* the first reader, the connection to the card.
LibLoadreader ==
    /\ prog = "lib"
    /\ pc = "closed"
    /\ \E outcome \in {"no_context", "no_list", "no_reader", "no_card",
                        "connect_failed", "connected"} :
         /\ pc' = CASE outcome = "no_context" -> "panicked"
                    [] outcome = "no_list" -> "exited"
                    [] outcome = "no_reader" -> "panicked"
                    [] outcome \in {"no_card", "connect_failed"} -> "error"
                    [] OTHER -> "ready"
         /\ Finish(IF outcome = "no_list"
                   THEN Say(Exec({}, TRUE), "Aucun lecteur trouve")
                   ELSE Exec({}, TRUE),
                   [NoOp EXCEPT !.name = "loadreader", !.outcome = outcome],
                   -1, <<>>)
         /\ UNCHANGED <<mainVars, nOps>>

LibStep(x) ==
    /\ pc' = IF x.panicked THEN "panicked" ELSE "ready"
    /\ nOps' = nOps + 1
    /\ UNCHANGED <<balance, prevBalance>>

LibReady ==
    /\ prog = "lib"
    /\ pc = "ready"
    /\ nOps < MaxOps

LibKeyload ==
    /\ LibReady
    /\ \E k \in Keys, failSet \in FaultSets(1), klOk \in BOOLEAN :
         \E r \in {CardManager_keyload(Exec(failSet, klOk), k)} :
             /\ LibStep(r.x)
             /\ Finish(r.x, [NoOp EXCEPT !.name = "keyload", !.key = k], r.ret, <<>>)

LibAuth ==
    /\ LibReady
    /\ \E block \in LibBlocks, failSet \in FaultSets(1) :
         \E r \in {CardManager_auth(Exec(failSet, TRUE), block)} :
             /\ LibStep(r.x)
             /\ Finish(r.x, [NoOp EXCEPT !.name = "auth", !.block = block],
                       r.ret, <<>>)

LibRead ==
    /\ LibReady
    /\ \E block \in LibBlocks, failSet \in FaultSets(3), klOk \in BOOLEAN :
         \E r \in {CardManager_read(Exec(failSet, klOk), block)} :
             /\ LibStep(r.x)
             /\ Finish(r.x, [NoOp EXCEPT !.name = "read", !.block = block], -1,
                       IF r.x.panicked THEN <<>> ELSE <<r.ret>>)

LibWrite ==
    /\ LibReady
    /\ \E block \in LibBlocks, failSet \in FaultSets(1) :
         \E x \in {CardManager_write(Exec(failSet, TRUE), block, DataBlk(1))} :
             /\ LibStep(x)
             /\ Finish(x, [NoOp EXCEPT !.name = "write", !.block = block,
                                       !.data = <<DataBlk(1)>>], -1, <<>>)

LibReadSector ==
    /\ LibReady
    /\ \E sector \in LibSectors, failSet \in SectorFaults(9), klOk \in BOOLEAN :
         \E r \in {CardManager_read_sector(Exec(failSet, klOk), sector)} :
             /\ LibStep(r.x)
             /\ Finish(r.x, [NoOp EXCEPT !.name = "read_sector", !.sector = sector],
                       -1, r.ret)

LibWriteSector ==
    /\ LibReady
    /\ \E sector \in LibSectors, n \in 0..MaxData :
         \E failSet \in SectorFaults(n) :
           \E x \in {CardManager_write_sector(Exec(failSet, TRUE), sector,
                                                DataVec(n))} :
               /\ LibStep(x)
               /\ Finish(x, [NoOp EXCEPT !.name = "write_sector", !.sector = sector,
                                         !.data = DataVec(n)], -1, <<>>)

\* test_write_and_read, lines 289-307: write_sector(s, data), then
\* read_sector(s) on the same card.
LibWriteAndRead ==
    /\ LibReady
    /\ \E sector \in LibSectors, failSet \in {{}, {1}}, klOk \in BOOLEAN :
         \E x \in {CardManager_write_sector(Exec(failSet, klOk), sector, DataVec(3))} :
           \E r \in {IF x.panicked THEN [x |-> x, ret |-> <<>>]
                      ELSE CardManager_read_sector(x, sector)} :
             /\ LibStep(r.x)
             /\ Finish(r.x, [NoOp EXCEPT !.name = "write_and_read",
                                         !.sector = sector, !.data = DataVec(3)],
                       -1, r.ret)

(***************************************************************************)
(* The programs.                                                           *)
(***************************************************************************)
CodecIdle ==
    /\ cv = ZeroI128
    /\ chexa = <<>>
    /\ ctab = ZeroBlock
    /\ cres = ZeroI128
    /\ cpc = "off"

\* No result: the poller holds nothing.
NoRes == [n |-> 0, msg |-> <<>>, id |-> "none"]

CoordIdle ==
    /\ chan = <<>>
    /\ pollPc = "off"
    /\ pollRes = NoRes
    /\ fgPc = "off"
    /\ fgName = "none"
    /\ lastShown = <<>>
    /\ shown = <<>>
    /\ taken = <<>>
    /\ registry = {}
    /\ sends = <<>>
    /\ nPolls = 0
    /\ nLines = 0

Init ==
    /\ prog \in {"main", "lib"}
    /\ pc = IF prog = "main" THEN "start" ELSE "closed"
    /\ overflowChecks \in BOOLEAN
    /\ cardKey \in Keys
    /\ mem \in {BalanceBlock :> b : b \in IF prog = "main" THEN InitBlocks
                                          ELSE {Blk(0, 0, 16)}}
    /\ key = <<>>
    /\ authSector = -1
    /\ wire = <<>>
    /\ resps = <<>>
    /\ out = <<>>
    /\ fault = {}
    /\ op = NoOp
    /\ retFlag = -1
    /\ retBlocks = <<>>
    /\ balance = ZeroI128
    /\ prevBalance = ZeroI128
    /\ nOps = 0
    /\ session = <<>>
    /\ CodecIdle
    /\ CoordIdle

Next ==
    \/ Startup
    \/ Command
    \/ LibLoadreader
    \/ LibKeyload
    \/ LibAuth
    \/ LibRead
    \/ LibWrite
    \/ LibReadSector
    \/ LibWriteSector
    \/ LibWriteAndRead

Spec == Init /\ [][Next]_vars

(***************************************************************************)
(* utils.rs : the balance codec on its own.                                *)
(***************************************************************************)
CodecBytes == {0, 1, 16, 127, 128, 255}
CodecInputs == {Blk(h, m, l) : h \in CodecBytes, m \in CodecBytes, l \in CodecBytes}

CodecRest ==
    UNCHANGED <<prog, pc, overflowChecks, cardVars, opVars, mainVars, nOps, session,
                coordVars>>

CodecInit ==
    /\ prog = "utils"
    /\ pc = "ready"
    /\ overflowChecks = TRUE
    /\ cardKey = DefaultKey
    /\ mem = (BalanceBlock :> ZeroBlock)
    /\ key = <<>>
    /\ authSector = -1
    /\ wire = <<>>
    /\ resps = <<>>
    /\ out = <<>>
    /\ fault = {}
    /\ op = NoOp
    /\ retFlag = -1
    /\ retBlocks = <<>>
    /\ balance = ZeroI128
    /\ prevBalance = ZeroI128
    /\ nOps = 0
    /\ session = <<>>
    /\ cv \in CodecInputs
    /\ chexa = <<>>
    /\ ctab = ZeroBlock
    /\ cres = ZeroI128
    /\ cpc = "input"
    /\ CoordIdle

\* format!("{:0>32X}", v)
CodecFormat ==
    /\ cpc = "input"
    /\ chexa' = FormatBalance(cv)
    /\ cpc' = "formatted"
    /\ UNCHANGED <<cv, ctab, cres>>
    /\ CodecRest

\* hexa_to_tableau(hexa)
CodecPack ==
    /\ cpc = "formatted"
    /\ LET t == hexa_to_tableau(chexa)
       IN  /\ ctab' = t.tableau
           /\ cpc' = IF t.ok THEN "packed" ELSE "panicked"
    /\ UNCHANGED <<cv, chexa, cres>>
    /\ CodecRest

\* hexa_to_decimal(tableau) of the packed bytes
CodecDecode ==
    /\ cpc = "packed"
    /\ cres' = hexa_to_decimal(ctab)
    /\ cpc' = "decoded"
    /\ UNCHANGED <<cv, chexa, ctab>>
    /\ CodecRest

\* hexa_to_decimal(tableau) of 16 bytes as read from a block
CodecDecodeRaw ==
    /\ cpc = "input"
    /\ ctab' = cv
    /\ cres' = hexa_to_decimal(cv)
    /\ cpc' = "rawdecoded"
    /\ UNCHANGED <<cv, chexa>>
    /\ CodecRest

CodecNext == CodecFormat \/ CodecPack \/ CodecDecode \/ CodecDecodeRaw

SpecCodec == CodecInit /\ [][CodecNext]_vars

(***************************************************************************)
(* The poll/command coordinator (sections 4.5 and 5 of the specification): *)
(* a periodic poller and an interactive foreground that meet on one        *)
(* single-slot channel.                                                    *)
(***************************************************************************)
\* Identifiers of the cards that may be presented, and names to register.
CardIds == {"04A1", "04B2"}
Names == {"alice", "bob"}

\* The lines of the CLI surface.
CoordLines == {<<"add", nm>> : nm \in Names}
                  \cup {<<"reset">>, <<"help">>, <<"exit">>, <<"quit">>, <<"bogus">>}

\* Registry: lookup-by-identifier, insert, delete-by-identifier.
Known(reg, id) == \E p \in reg : p[1] = id
NameOf(reg, id) == (CHOOSE p \in reg : p[1] = id)[2]
Insert(reg, id, nm) == reg \cup {<<id, nm>>}
Delete(reg, id) == {p \in reg : p[1] # id}

\* The display message of a poll: the name on record, or the bare identifier.
MessageOf(reg, id) ==
    IF Known(reg, id) THEN <<"known", NameOf(reg, id)>> ELSE <<"unknown", id>>

\* The channel (capacity 1): a send waits for the free slot, a receive takes
\* the pending value out.
CanSend(ch) == ch = <<>>
Send(ch, r) == Append(ch, r)
CanRecv(ch) == ch # <<>>
\* A variant that leaves the value in the slot.
RecvPeek(ch) == ch
Recv(ch) == Tail(ch)

\* A variant that displays every delivery.
SuppressedNever(msg, last) == FALSE
\* On delivery: identical consecutive messages are suppressed.
Suppressed(msg, last) == msg = last

CoordRest ==
    UNCHANGED <<prog, pc, overflowChecks, cardVars, opVars, mainVars, nOps, session,
                codecVars>>

CoordInit ==
    /\ prog = "coord"
    /\ pc = "ready"
    /\ overflowChecks = TRUE
    /\ cardKey = DefaultKey
    /\ mem = (BalanceBlock :> ZeroBlock)
    /\ key = <<>>
    /\ authSector = -1
    /\ wire = <<>>
    /\ resps = <<>>
    /\ out = <<>>
    /\ fault = {}
    /\ op = NoOp
    /\ retFlag = -1
    /\ retBlocks = <<>>
    /\ balance = ZeroI128
    /\ prevBalance = ZeroI128
    /\ nOps = 0
    /\ session = <<>>
    /\ CodecIdle
    /\ chan = <<>>
    /\ pollPc = "timer"
    /\ pollRes = NoRes
    /\ fgPc = "select"
    /\ fgName = "none"
    /\ lastShown = <<>>
    /\ shown = <<>>
    /\ taken = <<>>
    /\ registry \in {{}, {<<"04A1", "alice">>}}
    /\ sends = <<>>
    /\ nPolls = 0
    /\ nLines = 0

\* The timer fires with a card present: the poller reads its identifier,
\* looks it up and has a result {message, identifier} to deliver.
PollTick ==
    /\ pollPc = "timer"
    /\ fgPc # "stopped"
    /\ nPolls < MaxPolls
    /\ \E id \in CardIds :
         pollRes' = [n |-> nPolls + 1, msg |-> MessageOf(registry, id), id |-> id]
    /\ nPolls' = nPolls + 1
    /\ pollPc' = "sending"
    /\ UNCHANGED <<chan, fgPc, fgName, lastShown, shown, taken, registry, sends,
                   nLines>>
    /\ CoordRest

\* The timer fires with no reader or no card: the tick is skipped.
PollSkip ==
    /\ pollPc = "timer"
    /\ fgPc # "stopped"
    /\ nPolls < MaxPolls
    /\ nPolls' = nPolls + 1
    /\ UNCHANGED <<chan, pollPc, pollRes, fgPc, fgName, lastShown, shown, taken,
                   registry, sends, nLines>>
    /\ CoordRest

\* The send of the result: waits until the slot is free.
PollSend ==
    /\ pollPc = "sending"
    /\ fgPc # "stopped"
    /\ CanSend(chan)
    /\ chan' = Send(chan, pollRes)
    /\ sends' = Append(sends, pollRes.n)
    /\ pollRes' = NoRes
    /\ pollPc' = "timer"
    /\ UNCHANGED <<fgPc, fgName, lastShown, shown, taken, registry, nPolls, nLines>>
    /\ CoordRest

\* The foreground takes a delivery: displays it unless it repeats the last
\* displayed message.
FgDeliver ==
    /\ fgPc = "select"
    /\ CanRecv(chan)
    /\ LET r == Head(chan)
       IN  /\ chan' = Recv(chan)
           /\ taken' = Append(taken, [n |-> r.n, msg |-> r.msg, by |-> "display"])
           /\ IF Suppressed(r.msg, lastShown)
              THEN UNCHANGED <<shown, lastShown>>
              ELSE /\ shown' = Append(shown, r.msg)
                   /\ lastShown' = r.msg
    /\ UNCHANGED <<pollPc, pollRes, fgPc, fgName, registry, sends, nPolls, nLines>>
    /\ CoordRest

\* The foreground takes a line of input.
FgLine ==
    /\ fgPc = "select"
    /\ nLines < MaxLines
    /\ \E line \in CoordLines :
         /\ fgPc' = CASE line[1] = "add" -> "add"
                      [] line[1] = "reset" -> "reset"
                      [] line[1] \in {"exit", "quit"} -> "stopped"
                      [] OTHER -> "select"
         /\ fgName' = IF line[1] = "add" THEN line[2] ELSE "none"
    /\ nLines' = nLines + 1
    /\ UNCHANGED <<chan, pollPc, pollRes, lastShown, shown, taken, registry, sends,
                   nPolls>>
    /\ CoordRest

\* A pending add / reset pairs with the next delivery: it takes the result
\* and registers or deletes its identifier.
FgAdmin ==
    /\ fgPc \in {"add", "reset"}
    /\ CanRecv(chan)
    /\ LET r == Head(chan)
       IN  /\ chan' = Recv(chan)
           /\ taken' = Append(taken, [n |-> r.n, msg |-> r.msg, by |-> "admin"])
           /\ registry' = IF fgPc = "add" THEN Insert(registry, r.id, fgName)
                           ELSE Delete(registry, r.id)
    /\ fgPc' = "select"
    /\ fgName' = "none"
    /\ UNCHANGED <<pollPc, pollRes, lastShown, shown, sends, nPolls, nLines>>
    /\ CoordRest

CoordNext == PollTick \/ PollSkip \/ PollSend \/ FgDeliver \/ FgLine \/ FgAdmin

SpecCoord == CoordInit /\ [][CoordNext]_vars

(***************************************************************************)
(* Properties.                                                             *)
(***************************************************************************)
Printed(msg) == \E i \in 1..Len(out) : out[i] = msg

\* The frames as the wire format table of the specification gives them.
LoadKeyFrame == <<255, 130, 0, 0, 6, 255, 255, 255, 255, 255, 255>>
AuthFrame(b) == <<255, 134, 0, 0, 5, 1, 0, b, 96, 0>>
ReadFrame(b) == <<255, 176, 0, b, 16>>
WriteFrame(b, d) == <<255, 214, 0, b, 16>> \o d

\* The frames of a read of block b.
ReadFramesOf(b) == <<LoadKeyFrame, AuthFrame(b), ReadFrame(b)>>

IsPrefix(s, t) == Len(s) <= Len(t) /\ s = SubSeq(t, 1, Len(s))

\* a > b on two's complement values: by the signs, then byte by byte.
RECURSIVE LexGreater(_, _)
LexGreater(a, b) ==
    IF a = <<>> THEN FALSE
    ELSE IF Head(a) # Head(b) THEN Head(a) > Head(b)
    ELSE LexGreater(Tail(a), Tail(b))

Greater(a, b) ==
    IF IsNeg(a) # IsNeg(b) THEN IsNeg(b) ELSE LexGreater(a, b)

\* The last command of the balance loop, when it has the shape
\* "command amount" with an amount that parses.
IsCommand(c) ==
    /\ prog = "main"
    /\ op.name = "command"
    /\ Len(op.data) = 2
    /\ op.data[1] = c
    /\ ParsedAmounts[op.data[2]].ok

Amount == ParsedAmounts[op.data[2]].val

\* C1: no write frame (instruction 0xD6) with P2 below 4 is ever transmitted,
\* by write or by write_sector, whatever the block, the sector and the data;
\* write(b, data) transmits nothing for b < 4 and exactly the frame
\* FF D6 00 b 10 data for b >= 4.
C1_NoWriteBelowBlock4 ==
    /\ \A i \in 1..Len(wire) : wire[i][2] = 214 => wire[i][4] >= 4
    /\ op.name = "write" =>
         wire = IF op.block < 4 THEN <<>>
                ELSE <<WriteFrame(op.block, op.data[1])>>

\* write_sector(0, five blocks): four refusals, then one frame, for block 4.
C1_Witness ==
    /\ op.name = "write_sector"
    /\ op.sector = 0
    /\ Len(op.data) = 5
    /\ wire = <<WriteFrame(4, op.data[5])>>
    /\ Len(out) >= 4

\* C2: a read of a block transmits load-key with the all-FF key, then
\* authenticate for the block, then read-binary for the block, in this order
\* and nothing else; a read that returns has transmitted all three, also
\* when the key load or the authentication was refused; and no operation but
\* a direct call of keyload loads a key other than all-FF.
C2_ReadTransmitsThreeFrames ==
    /\ op.name = "read" =>
         /\ IsPrefix(wire, ReadFramesOf(op.block))
         /\ pc # "panicked" => wire = ReadFramesOf(op.block)
    /\ op.name # "keyload" =>
         \A i \in 1..Len(wire) : wire[i][2] = 130 => wire[i] = LoadKeyFrame

\* A read that returned although the card refused the authentication.
C2_Witness ==
    /\ op.name = "read"
    /\ pc # "panicked"
    /\ Len(wire) = 3
    /\ Len(resps[2]) >= 1 /\ resps[2][1] # 144
    /\ wire[3] = ReadFrame(op.block)

\* C3: keyload returns 1 if and only if the first two bytes of the card's
\* response are 90 00.
C3_KeyloadFlagIsStatus ==
    op.name = "keyload" =>
        (retFlag = 1 <=> (Len(resps[1]) >= 2 /\ resps[1][1] = 144 /\ resps[1][2] = 0))

\* C4: in load_key, authenticate, read and write a failure reported by the
\* card is soft (the caller goes on) and a transport error on a transmit is
\* a hard failure, never the soft flag 0.
C4_TransportHardCardSoft ==
    op.name \in {"keyload", "auth", "read", "write"} =>
        /\ fault # {} => pc = "panicked" /\ retFlag # 0
        /\ fault = {} => pc # "panicked"

\* C5: `retrait a` with a greater than the balance transmits no frame and
\* leaves the balance as it was; the loop goes on.
C5_RetraitRefused ==
    (IsCommand(Retrait) /\ Greater(Amount, prevBalance)) =>
        /\ wire = <<>>
        /\ balance = prevBalance
        /\ pc = "loop"

\* `retrait 100` against the balance 21.
C5_Witness ==
    /\ IsCommand(Retrait)
    /\ op.data[2] = <<"1", "0", "0">>
    /\ prevBalance = Blk(0, 0, 21)
    /\ balance = Blk(0, 0, 21)
    /\ Printed("Solde insuffisant")

\* C6: `depot a` sets the balance to exactly b + a and transmits exactly one
\* write frame, to block 4, with the 16 bytes of b + a.
C6_DepotExact ==
    IsCommand(Depot) =>
        LET w == ExactAdd(prevBalance, Amount)
        IN  /\ SignExtend(balance) = w
            /\ wire = <<WriteFrame(4, Tail(w))>>

\* C7: hexa_to_decimal of 16 bytes is not negative and is the unsigned
\* big-endian value of the bytes.
C7_DecodeUnsigned ==
    cpc = "rawdecoded" =>
        /\ ~IsNeg(cres)
        /\ SignExtend(cres) = ZeroExtend(ctab)

\* C8: formatting a non-negative 128-bit value as 32 hex digits, packing
\* them and decoding the bytes gives the value back.
C8_RoundTrip ==
    cpc = "decoded" => SignExtend(cres) = ZeroExtend(cv)

RECURSIVE SectorReadFrames(_, _)
\* The frames of the reads of the blocks b, b + 1, ..., b + n - 1.
SectorReadFrames(b, n) ==
    IF n = 0 THEN <<>> ELSE ReadFramesOf(b) \o SectorReadFrames(b + 1, n - 1)

RECURSIVE SectorWriteFrames(_, _, _)
\* The frames of write on the blocks b + i - 1 with data[i], from i on.
SectorWriteFrames(b, data, i) ==
    IF i > Len(data) THEN <<>>
    ELSE (IF b + i - 1 < 4 THEN <<>> ELSE <<WriteFrame(b + i - 1, data[i])>>)
             \o SectorWriteFrames(b, data, i + 1)

\* C10: without a transport error, read_sector(s) reads the three blocks 4s,
\* 4s+1, 4s+2 in this order, each with its own key load and authentication,
\* and returns three blocks; write_sector(s, data) calls write on the blocks
\* 4s, 4s+1, ... in increasing order with data[i] for block 4s+i.
C10_SectorBlocks ==
    /\ (op.name = "read_sector" /\ fault = {}) =>
         /\ wire = SectorReadFrames(4 * op.sector, 3)
         /\ Len(retBlocks) = 3
    /\ (op.name = "write_sector" /\ fault = {}) =>
         wire = SectorWriteFrames(4 * op.sector, op.data, 1)

\* C11: loadreader reports every failure to open the session as an error
\* value to its caller and never ends the process: no reader attached, a
\* reader without a card, a failed listing of the readers, a failed connect
\* and a context that cannot be established all return an error.
C11_OpenReportsErrors ==
    (op.name = "loadreader" /\ op.outcome # "connected") => pc = "error"

\* C12: the command `exit` or `quit` ends the command loop and transmits
\* nothing.
C12_ExitEndsLoop ==
    (/\ prog = "main"
     /\ op.name = "command"
     /\ Len(op.data) = 1
     /\ op.data[1] \in {Exit, Quit}) =>
        /\ pc = "exited"
        /\ wire = <<>>

\* C13: on a freshly opened session and without a transport error,
\* write_sector(s, data) with s >= 1 and three blocks of data followed by
\* read_sector(s) returns exactly these three blocks.
C13_WriteThenReadSector ==
    (/\ op.name = "write_and_read"
     /\ nOps = 1
     /\ op.sector >= 1
     /\ fault = {}) =>
        /\ pc = "ready"
        /\ retBlocks = op.data

\* The messages of the deliveries the display logic took, in order.
DisplayDeliveries ==
    LET d == SelectSeq(taken, LAMBDA t : t.by = "display")
    IN  [i \in 1..Len(d) |-> d[i].msg]

RECURSIVE Collapse(_)
\* A sequence without its immediate repetitions.
Collapse(q) ==
    IF Len(q) <= 1 THEN q
    ELSE IF q[1] = q[2] THEN Collapse(Tail(q))
    ELSE <<q[1]>> \o Collapse(Tail(q))

\* C14: a delivery whose message equals the last displayed message gives no
\* display event, one whose message differs gives exactly one and becomes
\* the last displayed message: the display events are the deliveries to the
\* display without their immediate repetitions.
C14_Deduplication ==
    prog = "coord" =>
        /\ shown = Collapse(DisplayDeliveries)
        /\ lastShown = IF shown = <<>> THEN <<>> ELSE shown[Len(shown)]

\* Two identical consecutive deliveries, one display event.
C14_Witness ==
    /\ prog = "coord"
    /\ Len(DisplayDeliveries) = 2
    /\ DisplayDeliveries[1] = DisplayDeliveries[2]
    /\ Len(shown) = 1

\* How many times the result number n was consumed.
TimesTaken(n) == Cardinality({j \in 1..Len(taken) : taken[j].n = n})

\* C15: under every interleaving of the poller, the display and a pending
\* add / reset, each result put in the channel is either still pending there
\* or was consumed exactly once, by the display or by the admin command; and
\* at most one result is pending.
C15_ConsumedExactlyOnce ==
    prog = "coord" =>
        /\ Len(chan) <= 1
        /\ \A i \in 1..Len(sends) :
             LET pending == chan # <<>> /\ Head(chan).n = sends[i]
             IN  \/ TimesTaken(sends[i]) = 1 /\ ~pending
                 \/ TimesTaken(sends[i]) = 0 /\ pending
        /\ \A j \in 1..Len(taken) : \E i \in 1..Len(sends) : sends[i] = taken[j].n

\* One result went to a pending admin command, one to the display, and a
\* third is pending.
C15_Witness ==
    /\ prog = "coord"
    /\ \E j \in 1..Len(taken) : taken[j].by = "admin"
    /\ \E j \in 1..Len(taken) : taken[j].by = "display"
    /\ chan # <<>>

\* The last operation transmitted one write frame and the card answered it.
OneWriteAnswered ==
    /\ op.name \in {"write", "command"}
    /\ Len(wire) = 1
    /\ wire[1][2] = 214
    /\ resps[1] # <<>>

\* C16: a write to a block >= 4 prints "Success" exactly when the first byte
\* of the card's response is 0x90 and "Failed" otherwise.
C16_WriteReportsStatus ==
    OneWriteAnswered =>
        /\ Printed("Success") <=> resps[1][1] = 144
        /\ Printed("Failed") <=> resps[1][1] # 144

\* The card answered the read frame of the last read with a status only.
ReadAnsweredStatusOnly ==
    /\ op.name = "read"
    /\ Len(wire) = 3
    /\ resps[3] # <<>>
    /\ Len(resps[3]) < BlockLen + 2

\* C17: when the card answers the read frame with a status-only failure
\* response, the bytes read returns, and the balance main derives from them
\* at start-up, are not built from the status bytes of that response.
C17_ReadChecksLength ==
    ReadAnsweredStatusOnly =>
        /\ \A i \in 1..Len(retBlocks) :
             SubSeq(retBlocks[i], 1, 2) # SubSeq(resps[3], 1, 2)
        /\ (prog = "main" /\ pc = "loop") =>
             SubSeq(balance, 1, 2) # SubSeq(resps[3], 1, 2)

\* C18: after every completed command of the balance program the balance in
\* memory is the decoded content of block 4 of the card.
C18_BalanceIsCard ==
    (prog = "main" /\ op.name = "command" /\ pc = "loop") =>
        balance = hexa_to_decimal(MemAt(mem, BalanceBlock))

\* C19: in the balance program every write frame to block 4 comes, on the
\* session, after a load-key frame and a later authenticate frame for block
\* 4, with no authenticate for another block in between.
C19_WriteAfterAuth ==
    prog = "main" =>
        \A i \in 1..Len(session) :
            (session[i][2] = 214 /\ session[i][4] = BalanceBlock) =>
                \E j \in 1..(i - 1) : \E k \in (j + 1)..(i - 1) :
                    /\ session[j] = LoadKeyFrame
                    /\ session[k] = AuthFrame(BalanceBlock)
                    /\ \A l \in (k + 1)..(i - 1) :
                         session[l][2] = 134 => session[l] = AuthFrame(BalanceBlock)

\* Two commands that each wrote to block 4, after the read of the start-up.
C19_Witness ==
    /\ prog = "main"
    /\ Len(session) = 5
    /\ session[4][2] = 214 /\ session[4][4] = BalanceBlock
    /\ session[5][2] = 214 /\ session[5][4] = BalanceBlock

\* C20: a depot or a retrait with any amount that parses, on a balance that
\* is not negative, leaves a balance that is not negative, and what it writes
\* to block 4 are the bytes of a value that is not negative.
C20_BalanceNonNegative ==
    (/\ prog = "main"
     /\ op.name = "command"
     /\ ~IsNeg(prevBalance)) =>
        /\ ~IsNeg(balance)
        /\ \A i \in 1..Len(wire) : wire[i][2] = 214 => wire[i][6] < 128

\* The number of blocks a sector operation computes a block number for:
\* three for read_sector, one for every block of data for write_sector.
SectorOffsets == IF op.name = "read_sector" THEN 3 ELSE Len(op.data)

\* C21: for every sector number s of 8 bits and every length of data, the
\* block numbers that read_sector and write_sector compute in 8-bit
\* arithmetic never overflow: s * 4 is 4s and start_block + offset is
\* 4s + offset, so that the operation does not panic without a transport
\* error and no frame names a block below 4s.
C21_BlockNumbersExact ==
    op.name \in {"read_sector", "write_sector"} =>
        /\ U8Mul(op.sector, 4) = [ok |-> TRUE, val |-> 4 * op.sector]
        /\ \A off \in 0..(SectorOffsets - 1) :
               U8Add(U8Mul(op.sector, 4).val, off)
                   = [ok |-> TRUE, val |-> 4 * op.sector + off]
        /\ fault = {} => pc # "panicked"
        /\ \A i \in 1..Len(wire) :
               wire[i][2] \in {176, 214} => wire[i][4] >= 4 * op.sector

\* C22: write_sector(s, data) writes only blocks of the sector s, the blocks
\* 4s..4s+3, whatever the length of data; write_sector(0, data) transmits
\* no write frame, whatever the length of data.
C22_WriteSectorStaysInSector ==
    op.name = "write_sector" =>
        /\ \A i \in 1..Len(wire) :
               wire[i][2] = 214 =>
                   wire[i][4] \in (4 * op.sector)..(4 * op.sector + 3)
        /\ op.sector = 0 => wire = <<>>

(***************************************************************************)
(* Supplementary checks: what holds of the refuted statements.             *)
(***************************************************************************)
\* C6, when b + a is in the range of i128.
DepotExactInRange ==
    (IsCommand(Depot) /\ FitsI128(ExactAdd(prevBalance, Amount))) => C6_DepotExact

\* C7 and C8, for bytes whose first is below 0x80.
DecodeUnsignedBelowTopBit ==
    cv[1] < 128 => (C7_DecodeUnsigned /\ C8_RoundTrip)

\* C21, when no block number computed passes 255.
BlockNumbersExactInRange ==
    (/\ 4 * op.sector < U8Mod
     /\ 4 * op.sector + SectorOffsets <= U8Mod) => C21_BlockNumbersExact

\* C22, for at most four blocks of data and a sector below 64.
WriteSectorStaysInSectorUpToFour ==
    (4 * op.sector < U8Mod /\ Len(op.data) <= 4) => C22_WriteSectorStaysInSector

\* C10, when no block number computed passes 255.
SectorBlocksInRange ==
    (/\ op.sector >= 0
     /\ 4 * op.sector < U8Mod
     /\ 4 * op.sector + Len(op.data) <= U8Mod) => C10_SectorBlocks

\* C13: the first calls on a fresh session never give the data back, as the
\* card refuses a write it was not authenticated for.
WriteThenReadFreshNeverReturnsData ==
    (op.name = "write_and_read" /\ nOps = 1) => retBlocks # op.data

\* C13, when the card accepted the three writes and the three reads.
WriteThenReadWhenCardAccepts ==
    (/\ op.name = "write_and_read"
     /\ Len(resps) = 12
     /\ \A i \in 1..3 : resps[i] = SwOk
     /\ \A i \in {6, 9, 12} : Len(resps[i]) = BlockLen + 2) =>
        retBlocks = op.data

\* C16: write prints "Success" for every response that is shorter than 17
\* bytes, and never "Failed".
WriteAlwaysSaysSuccess ==
    OneWriteAnswered => (Printed("Success") /\ ~Printed("Failed"))

\* C17: read returns the first 16 bytes of the response buffer as they are.
ReadReturnsBufferPrefix ==
    ReadAnsweredStatusOnly =>
        retBlocks = <<SubSeq(resps[3], 1, 2) \o Zeros(BlockLen - 2)>>

\* C18, when the card is authenticated for the sector of block 4.
BalanceIsCardWhenAuthenticated ==
    authSector = SectorOf(BalanceBlock) => C18_BalanceIsCard

\* C20, for amounts that are not negative and sums within the range of i128.
BalanceNonNegativeForPlainAmounts ==
    (/\ IsCommand(Depot) \/ IsCommand(Retrait)
     /\ ~IsNeg(Amount)
     /\ FitsI128(ExactAdd(prevBalance, Amount))) => C20_BalanceNonNegative

\* C3 and C4: CardManager::keyload returns 1 exactly when the transmit
\* returned Ok, and never panics.
KeyloadFlagIsTransport ==
    op.name = "keyload" => (pc = "ready" /\ (retFlag = 1 <=> fault = {}))

====
